---- MODULE Spec2Model ----
(***************************************************************************)
(* Model of backend/app/database/organizations.py: the Organizations data  *)
(* access class and the document store it drives.  Each request is a       *)
(* coroutine that suspends at every awaited store call; the store runs     *)
(* each request's writes inside a session transaction (snapshot isolation, *)
(* write-write conflicts abort the later writer, the writes become durable *)
(* only when the `async with session.start_transaction()` block exits      *)
(* without an exception).                                                  *)
(***************************************************************************)
EXTENDS Integers, Sequences, FiniteSets, TLC

\* ---------------------------------------------------------------- bounds
NumUsers == 2
MaxOrgs  == 1
MaxOpps  == 1
NumProcs == 2
NumNames == 2

\* User ids that carry a valid token.  Ids 1..NumUsers have a record in the
\* Users collection, id 0 is a well-formed id with no record.
UserIds    == 0..NumUsers
Registered == 1..NumUsers
OrgIds     == 1..MaxOrgs
Procs      == 1..NumProcs
Names      == 1..NumNames

VARIABLES
    orgs,     \* Organizations collection: org id -> document
    opps,     \* Opportunities collection: opportunity id -> document
    users,    \* Users collection: user id -> the "organizations" array
    proc,     \* one record per request slot (coroutine)
    nextOrg,  \* next store-generated organization id
    nextOpp,  \* next store-generated opportunity id
    gate      \* the request the authorization functions are deciding

vars == <<orgs, opps, users, proc, nextOrg, nextOpp, gate>>

\* ------------------------------------------------------------- responses
NoResult        == [status |-> 0,   detail |-> "none"]
CreatedOrg      == [status |-> 201, detail |-> "organization"]
CreatedOpp      == [status |-> 201, detail |-> "opportunity"]
MemberAdded     == [status |-> 201, detail |-> "Success: User added to the organization."]
OrgDeleted      == [status |-> 200, detail |-> "Success: Organization deleted Successfully."]
ConnectionError == [status |-> 500, detail |-> "Error: Database connection error."]
ServerError     == [status |-> 500, detail |-> "Internal Server Error"]
UserNotUpdated    == [status |-> 400, detail |-> "Error: Unable to update user"]
UserNotUpdatedDot == [status |-> 400, detail |-> "Error: Unable to update user."]
OrgNotUpdated   == [status |-> 400, detail |-> "Error: Unable to update organization"]
OrgNotFound     == [status |-> 404, detail |-> "Error: Organization not found."]
AlreadyMember   == [status |-> 400, detail |-> "Error: User is already a member of the organization."]
OrgIsPrivate    == [status |-> 401, detail |-> "Error: Organization is private."]
DelOrgNotFound  == [status |-> 401, detail |-> "Error: Organization not found."]
Unauthorized    == [status |-> 401, detail |-> "Error: Unauthorized user."]
\* is_authorized_user falls off its end: the caller gets None.
ReturnsNone     == [status |-> 200, detail |-> "None"]
OrgNotDeleted   == [status |-> 400, detail |-> "Error: Unable to delete organization."]
OrgExists       == [status |-> 400, detail |-> "Error: Organization already exists with this name."]

\* ------------------------------------------------------ sequence helpers
Contains(s, x) == \E i \in 1..Len(s) : s[i] = x

Pull(s, x) == SelectSeq(s, LAMBDA e : e # x)

Count(s, x) == Cardinality({i \in 1..Len(s) : s[i] = x})

\* ------------------------------------------------------- the document store
OrgKey(o)  == <<"org", o>>
UserKey(u) == <<"user", u>>
OppKey(i)  == <<"opp", i>>

Db == [orgs |-> orgs, opps |-> opps, users |-> users]

Exists(key) ==
    CASE key[1] = "org"  -> key[2] \in DOMAIN orgs
      [] key[1] = "user" -> key[2] \in DOMAIN users
      [] key[1] = "opp"  -> key[2] \in DOMAIN opps

\* One buffered write of a transaction applied to the collections.
ApplyWrite(db, w) ==
    CASE w.k = "insert_org" ->
           [db EXCEPT !.orgs = [o \in DOMAIN db.orgs \cup {w.id} |->
                                  IF o = w.id THEN w.doc ELSE db.orgs[o]]]
      [] w.k = "insert_opp" ->
           [db EXCEPT !.opps = [i \in DOMAIN db.opps \cup {w.id} |->
                                  IF i = w.id THEN w.doc ELSE db.opps[i]]]
      [] w.k = "push_member" ->
           [db EXCEPT !.orgs[w.org].members = Append(@, w.user)]
      [] w.k = "push_opportunity" ->
           [db EXCEPT !.orgs[w.org].opportunities = Append(@, w.opp)]
      [] w.k = "push_organization" ->
           [db EXCEPT !.users[w.user] = Append(@, w.org)]
      [] w.k = "delete_org" ->
           [db EXCEPT !.orgs = [o \in DOMAIN db.orgs \ {w.org} |-> db.orgs[o]]]
      [] w.k = "pull_organization" ->
           [db EXCEPT !.users = [u \in DOMAIN db.users |->
                                   IF u \in w.users THEN Pull(db.users[u], w.org)
                                   ELSE db.users[u]]]

RECURSIVE ApplyAll(_, _)
ApplyAll(db, ws) ==
    IF ws = << >> THEN db ELSE ApplyAll(ApplyWrite(db, Head(ws)), Tail(ws))

\* Documents a buffered write creates, and documents it changes or removes.
InsertedKeys(w) ==
    CASE w.k = "insert_org" -> {OrgKey(w.id)}
      [] w.k = "insert_opp" -> {OppKey(w.id)}
      [] OTHER -> {}

ModifiedKeys(w) ==
    CASE w.k \in {"push_member", "push_opportunity", "delete_org"} -> {OrgKey(w.org)}
      [] w.k = "push_organization" -> {UserKey(w.user)}
      [] w.k = "pull_organization" -> {UserKey(u) : u \in w.users}
      [] OTHER -> {}

AllInserted(ws) == UNION {InsertedKeys(ws[i]) : i \in 1..Len(ws)}
AllModified(ws) == UNION {ModifiedKeys(ws[i]) : i \in 1..Len(ws)}

\* Variant: writes issued outside the session stay durable after a raise.
ExitTransaction_NoRollback(ws, raised) == ws

\* The writes that become durable when the transaction block is left:
\* all of them on a normal exit, none when an exception leaves the block.
ExitTransaction(ws, raised) == IF raised THEN << >> ELSE ws

\* ----------------------------------------------------------- request slots
FirstCalls == {"co_insert_one", "op_insert_one", "am_find_one", "del_find_one",
               "au_find_one"}

HasSnapshot(q) == proc[q].pc \notin ({"idle"} \cup FirstCalls)

IdleProc == [pc |-> "idle", op |-> "none", user |-> 0, org |-> 0, private |-> FALSE,
             name |-> 0, session |-> "none", tasks |-> << >>,
             wr |-> << >>, stale |-> {}, invis |-> {}, members |-> << >>,
             newid |-> 0, at |-> "none", result |-> NoResult]

\* A document is in p's snapshot when it exists (or existed until a later
\* commit removed it) and was not created by a commit after the snapshot.
InSnapshot(p, key) ==
    /\ key \notin proc[p].invis
    /\ (Exists(key) \/ key \in proc[p].stale)

\* Variant: only open transactions conflict, committed changes are not seen.
WriteConflict_LocksOnly(p, key) ==
    \E q \in Procs \ {p} : key \in AllModified(proc[q].wr)

\* A write conflicts when the document was changed by a transaction that
\* committed after p's snapshot, or is held by another open transaction.
WriteConflict(p, key) ==
    \/ key \in proc[p].stale
    \/ \E q \in Procs \ {p} : key \in AllModified(proc[q].wr)

\* Outcome of a single-document write with filter {"_id": ...}.
WriteOutcome(p, key) ==
    IF ~InSnapshot(p, key) THEN "nomatch"
    ELSE IF WriteConflict(p, key) THEN "conflict"
    ELSE "ok"

\* The operations whose try statement has a finally clause that calls
\* session.end_session().
EndsSession(op) == op \in {"create_organization", "create_opportunity", "add_member"}

\* The request in slot p returns or raises: the transaction block is left,
\* the durable writes reach the collections and every other open
\* transaction sees them as changes made after its snapshot.
Leave(p, res, raised) ==
    LET ws == ExitTransaction(proc[p].wr, raised)
        db == ApplyAll(Db, ws)
    IN  /\ orgs'  = db.orgs
        /\ opps'  = db.opps
        /\ users' = db.users
        /\ proc' = [q \in Procs |->
               IF q = p
               THEN [proc[p] EXCEPT !.pc = "idle", !.wr = << >>, !.stale = {},
                                    !.invis = {}, !.members = << >>,
                                    !.name = 0, !.private = FALSE,
                                    !.session = IF EndsSession(proc[p].op)
                                                THEN "ended" ELSE @,
                                    !.at = proc[p].pc, !.result = res]
               ELSE IF HasSnapshot(q)
               THEN [proc[q] EXCEPT !.stale = @ \cup AllModified(ws),
                                    !.invis = @ \cup AllInserted(ws)]
               ELSE proc[q]]

\* The request suspends at the next awaited store call.
Goto(p, pc, w) ==
    /\ proc' = [proc EXCEPT ![p].pc = pc, ![p].wr = proc[p].wr \o w]
    /\ UNCHANGED <<orgs, opps, users>>

\* ------------------------------------------------ the authorization gate
\* Python's None for current_user; a user id u is the one-element <<u>>.
None == << >>

\* What a call of authentication_handler or check_authorization gave back:
\* a returned value, or the message of the raised Exception together with
\* the exception it was chained to by "raise ... from e".
Returned(v)        == [ok |-> TRUE,  value |-> v,    msg |-> "", cause |-> ""]
Raised(msg, cause) == [ok |-> FALSE, value |-> None, msg |-> msg, cause |-> cause]

\* No authorization function has been called yet.
IdleGate ==
    [pc |-> "idle", fn |-> "none", header |-> [present |-> FALSE, text |-> << >>],
     user |-> None, path |-> << >>, method |-> "GET", calls |-> << >>,
     result |-> Returned(None), raised |-> {}]

Init ==
    /\ gate  = IdleGate
    /\ orgs  = << >>
    /\ opps  = << >>
    /\ users = [u \in Registered |-> << >>]
    /\ proc  = [p \in Procs |-> IdleProc]
    /\ nextOrg = 1
    /\ nextOpp = 1

\* ------------------------------------------------------ create_organization
CallCreateOrganization(p) ==
    /\ proc[p].pc = "idle"
    /\ \E u \in UserIds, priv \in BOOLEAN, n \in Names :
         proc' = [proc EXCEPT ![p] = [IdleProc EXCEPT !.pc = "co_insert_one", !.session = "open",
                     !.op = "create_organization", !.user = u, !.private = priv,
                     !.name = n]]
    /\ UNCHANGED <<orgs, opps, users, nextOrg, nextOpp, gate>>

\* Variant: the creator is made admin but not member.
NewOrganization_NoMember(u, data) ==
    [name |-> data.name, private |-> data.private, created_by |-> u,
     admins |-> <<u>>, members |-> << >>, opportunities |-> << >>]

\* The document built from the request body and the caller.
NewOrganization(u, data) ==
    [name |-> data.name, private |-> data.private, created_by |-> u,
     admins |-> <<u>>, members |-> <<u>>, opportunities |-> << >>]

\* The unique index on Organization.name: a stored organization has the name.
NameTaken(n) == \E o \in DOMAIN orgs : orgs[o].name = n

\* Another open transaction has inserted an organization of that name.
NameHeld(p, n) ==
    \E q \in Procs \ {p} : \E i \in 1..Len(proc[q].wr) :
        proc[q].wr[i].k = "insert_org" /\ proc[q].wr[i].doc.name = n

\* Variant: DuplicateKeyError has no handler of its own.
DuplicateName_Unhandled == ServerError

\* What the DuplicateKeyError handler raises.
DuplicateName == OrgExists

CoInsertOne(p) ==
    /\ proc[p].pc = "co_insert_one"
    /\ IF NameTaken(proc[p].name)
       THEN Leave(p, DuplicateName, TRUE) /\ UNCHANGED nextOrg
       ELSE IF NameHeld(p, proc[p].name)
       THEN Leave(p, ServerError, TRUE) /\ UNCHANGED nextOrg
       ELSE /\ nextOrg <= MaxOrgs
            /\ proc' = [proc EXCEPT ![p].pc = "co_update_one", ![p].newid = nextOrg,
                  ![p].wr = <<[k |-> "insert_org", id |-> nextOrg,
                     doc |-> NewOrganization(proc[p].user,
                               [name |-> proc[p].name, private |-> proc[p].private])]>>]
            /\ nextOrg' = nextOrg + 1
            /\ UNCHANGED <<orgs, opps, users>>
    /\ UNCHANGED <<nextOpp, gate>>

CoUpdateOne(p) ==
    /\ proc[p].pc = "co_update_one"
    /\ LET out == WriteOutcome(p, UserKey(proc[p].user))
       IN  CASE out = "conflict" -> Leave(p, ServerError, TRUE)
             [] out = "nomatch"  -> Leave(p, UserNotUpdated, TRUE)
             [] out = "ok" ->
                  Goto(p, "co_commit", <<[k |-> "push_organization",
                           user |-> proc[p].user, org |-> proc[p].newid]>>)
    /\ UNCHANGED <<nextOrg, nextOpp, gate>>

CoCommit(p) ==
    /\ proc[p].pc = "co_commit"
    /\ Leave(p, CreatedOrg, FALSE)
    /\ UNCHANGED <<nextOrg, nextOpp, gate>>

\* ------------------------------------------------------ create_opportunity
PendingOppInserts == Cardinality({q \in Procs : proc[q].pc = "op_insert_one"})

CallCreateOpportunity(p) ==
    /\ proc[p].pc = "idle"
    /\ nextOpp + PendingOppInserts <= MaxOpps
    /\ \E u \in UserIds, o \in OrgIds :
         proc' = [proc EXCEPT ![p] = [IdleProc EXCEPT !.pc = "op_insert_one", !.session = "open",
                     !.op = "create_opportunity", !.user = u, !.org = o]]
    /\ UNCHANGED <<orgs, opps, users, nextOrg, nextOpp, gate>>

NewOpportunity(u, o) == [organization_id |-> o, created_by |-> u]

OpInsertOne(p) ==
    /\ proc[p].pc = "op_insert_one"
    /\ proc' = [proc EXCEPT ![p].pc = "op_update_one", ![p].newid = nextOpp,
                  ![p].wr = <<[k |-> "insert_opp", id |-> nextOpp,
                               doc |-> NewOpportunity(proc[p].user, proc[p].org)]>>]
    /\ nextOpp' = nextOpp + 1
    /\ UNCHANGED <<orgs, opps, users, nextOrg, gate>>

OpUpdateOne(p) ==
    /\ proc[p].pc = "op_update_one"
    /\ LET out == WriteOutcome(p, OrgKey(proc[p].org))
       IN  CASE out = "conflict" -> Leave(p, ServerError, TRUE)
             [] out = "nomatch"  -> Leave(p, OrgNotUpdated, TRUE)
             [] out = "ok" ->
                  /\ proc' = [proc EXCEPT ![p].pc = "op_commit",
                        ![p].wr = proc[p].wr \o <<[k |-> "push_opportunity",
                                     org |-> proc[p].org, opp |-> proc[p].newid]>>,
                        ![p].tasks = Append(proc[p].tasks,
                                     [org |-> proc[p].org, opp |-> proc[p].newid])]
                  /\ UNCHANGED <<orgs, opps, users>>
    /\ UNCHANGED <<nextOrg, nextOpp, gate>>

OpCommit(p) ==
    /\ proc[p].pc = "op_commit"
    /\ Leave(p, CreatedOpp, FALSE)
    /\ UNCHANGED <<nextOrg, nextOpp, gate>>

\* --------------------------------------------------------------- add_member
CallAddMember(p) ==
    /\ proc[p].pc = "idle"
    /\ \E u \in UserIds, o \in OrgIds :
         proc' = [proc EXCEPT ![p] = [IdleProc EXCEPT !.pc = "am_find_one", !.session = "open",
                     !.op = "add_member", !.user = u, !.org = o]]
    /\ UNCHANGED <<orgs, opps, users, nextOrg, nextOpp, gate>>

\* Variant: the already-a-member test is missing.
AddMemberRejection_NoMemberCheck(o, u) ==
    IF o \notin DOMAIN orgs THEN OrgNotFound
    ELSE IF orgs[o].private THEN OrgIsPrivate
    ELSE NoResult

\* Variant: the private test comes before the already-a-member test.
AddMemberRejection_PrivateFirst(o, u) ==
    IF o \notin DOMAIN orgs THEN OrgNotFound
    ELSE IF orgs[o].private THEN OrgIsPrivate
    ELSE IF Contains(orgs[o].members, u) THEN AlreadyMember
    ELSE NoResult

\* Variant: the private test is missing.
AddMemberRejection_NoPrivateCheck(o, u) ==
    IF o \notin DOMAIN orgs THEN OrgNotFound
    ELSE IF Contains(orgs[o].members, u) THEN AlreadyMember
    ELSE NoResult

\* The three rejections of add_member, in the order the code tests them;
\* NoResult when none applies.
AddMemberRejection(o, u) ==
    IF o \notin DOMAIN orgs THEN OrgNotFound
    ELSE IF Contains(orgs[o].members, u) THEN AlreadyMember
    ELSE IF orgs[o].private THEN OrgIsPrivate
    ELSE NoResult

AmFindOne(p) ==
    /\ proc[p].pc = "am_find_one"
    /\ LET rej == AddMemberRejection(proc[p].org, proc[p].user)
       IN  IF rej # NoResult
           THEN Leave(p, rej, TRUE)
           ELSE Goto(p, "am_update_org", << >>)
    /\ UNCHANGED <<nextOrg, nextOpp, gate>>

AmUpdateOrg(p) ==
    /\ proc[p].pc = "am_update_org"
    /\ LET out == WriteOutcome(p, OrgKey(proc[p].org))
       IN  CASE out = "conflict" -> Leave(p, ServerError, TRUE)
             [] out = "nomatch"  -> Leave(p, UserNotUpdated, TRUE)
             [] out = "ok" ->
                  Goto(p, "am_update_user", <<[k |-> "push_member",
                           org |-> proc[p].org, user |-> proc[p].user]>>)
    /\ UNCHANGED <<nextOrg, nextOpp, gate>>

\* Variant: the modified_count of the user update is not tested.
AmUpdateUser_NoCheck(p) ==
    /\ proc[p].pc = "am_update_user"
    /\ LET out == WriteOutcome(p, UserKey(proc[p].user))
       IN  CASE out = "conflict" -> Leave(p, ServerError, TRUE)
             [] out = "nomatch"  -> Goto(p, "am_commit", << >>)
             [] out = "ok" ->
                  Goto(p, "am_commit", <<[k |-> "push_organization",
                           user |-> proc[p].user, org |-> proc[p].org]>>)
    /\ UNCHANGED <<nextOrg, nextOpp, gate>>

AmUpdateUser(p) ==
    /\ proc[p].pc = "am_update_user"
    /\ LET out == WriteOutcome(p, UserKey(proc[p].user))
       IN  CASE out = "conflict" -> Leave(p, ServerError, TRUE)
             [] out = "nomatch"  -> Leave(p, UserNotUpdatedDot, TRUE)
             [] out = "ok" ->
                  Goto(p, "am_commit", <<[k |-> "push_organization",
                           user |-> proc[p].user, org |-> proc[p].org]>>)
    /\ UNCHANGED <<nextOrg, nextOpp, gate>>

AmCommit(p) ==
    /\ proc[p].pc = "am_commit"
    /\ Leave(p, MemberAdded, FALSE)
    /\ UNCHANGED <<nextOrg, nextOpp, gate>>

\* ------------------------------------------------------ delete_organization
CallDeleteOrganization(p) ==
    /\ proc[p].pc = "idle"
    /\ \E u \in UserIds, o \in OrgIds :
         proc' = [proc EXCEPT ![p] = [IdleProc EXCEPT !.pc = "del_find_one", !.session = "open",
                     !.op = "delete_organization", !.user = u, !.org = o]]
    /\ UNCHANGED <<orgs, opps, users, nextOrg, nextOpp, gate>>

\* Variant: any member may delete, not only the creator.
DeleteRejection_AnyMember(o, u) ==
    IF o \notin DOMAIN orgs THEN DelOrgNotFound
    ELSE IF ~Contains(orgs[o].members, u) THEN Unauthorized
    ELSE NoResult

\* The two rejections of delete_organization; NoResult when none applies.
DeleteRejection(o, u) ==
    IF o \notin DOMAIN orgs THEN DelOrgNotFound
    ELSE IF u # orgs[o].created_by THEN Unauthorized
    ELSE NoResult

DelFindOne(p) ==
    /\ proc[p].pc = "del_find_one"
    /\ LET rej == DeleteRejection(proc[p].org, proc[p].user)
       IN  IF rej # NoResult
           THEN Leave(p, rej, TRUE)
           ELSE /\ proc' = [proc EXCEPT ![p].pc = "del_delete_one",
                              ![p].members = orgs[proc[p].org].members]
                /\ UNCHANGED <<orgs, opps, users>>
    /\ UNCHANGED <<nextOrg, nextOpp, gate>>

DelDeleteOne(p) ==
    /\ proc[p].pc = "del_delete_one"
    /\ LET out == WriteOutcome(p, OrgKey(proc[p].org))
       IN  CASE out = "conflict" -> Leave(p, ServerError, TRUE)
             [] out = "nomatch"  -> Leave(p, OrgNotDeleted, TRUE)
             [] out = "ok" ->
                  Goto(p, "del_update_many", <<[k |-> "delete_org", org |-> proc[p].org]>>)
    /\ UNCHANGED <<nextOrg, nextOpp, gate>>

\* Variant: the id is pulled from the requester's record only.
PullTargets_RequesterOnly(p) ==
    {u \in UserIds : u = proc[p].user /\ InSnapshot(p, UserKey(u))}

\* User records the filter {"_id": {"$in": members}} matches in p's snapshot.
PullTargets(p) ==
    {u \in UserIds : Contains(proc[p].members, u) /\ InSnapshot(p, UserKey(u))}

\* modified_count of the $pull: matched records that hold the org id.
PullModified(p) ==
    Cardinality({u \in PullTargets(p) : u \in DOMAIN users /\ Contains(users[u], proc[p].org)})

DelUpdateMany(p) ==
    /\ proc[p].pc = "del_update_many"
    /\ IF \E u \in PullTargets(p) : WriteConflict(p, UserKey(u))
       THEN Leave(p, ServerError, TRUE)
       ELSE IF PullModified(p) = 0
       THEN Leave(p, UserNotUpdatedDot, TRUE)
       ELSE Goto(p, "del_commit", <<[k |-> "pull_organization",
                    users |-> PullTargets(p), org |-> proc[p].org]>>)
    /\ UNCHANGED <<nextOrg, nextOpp, gate>>

DelCommit(p) ==
    /\ proc[p].pc = "del_commit"
    /\ Leave(p, OrgDeleted, FALSE)
    /\ UNCHANGED <<nextOrg, nextOpp, gate>>

\* --------------------------------------------------------- store failure
\* Any awaited store call may raise ConnectionFailure.
\* ------------------------------------------------------- is_authorized_user
CallIsAuthorizedUser(p) ==
    /\ proc[p].pc = "idle"
    /\ \E u \in UserIds, o \in OrgIds :
         proc' = [proc EXCEPT ![p] = [IdleProc EXCEPT !.pc = "au_find_one",
                     !.op = "is_authorized_user", !.user = u, !.org = o]]
    /\ UNCHANGED <<orgs, opps, users, nextOrg, nextOpp, gate>>

\* Variant: the filter matches on the members array.
AdminFilterMatches_Members(o, u) == o \in DOMAIN orgs /\ Contains(orgs[o].members, u)

\* find_one({"_id": org_id, "admins": user_id}) returns a document.
AdminFilterMatches(o, u) == o \in DOMAIN orgs /\ Contains(orgs[o].admins, u)

\* What is_authorized_user(o, u) gives its caller when the store answers.
IsAuthorizedOutcome(o, u) ==
    IF AdminFilterMatches(o, u) THEN ReturnsNone ELSE Unauthorized

\* The query runs outside any session, on the committed collections.
AuFindOne(p) ==
    /\ proc[p].pc = "au_find_one"
    /\ Leave(p, IsAuthorizedOutcome(proc[p].org, proc[p].user),
             ~AdminFilterMatches(proc[p].org, proc[p].user))
    /\ UNCHANGED <<nextOrg, nextOpp, gate>>

ConnectionFailure(p) ==
    /\ proc[p].pc # "idle"
    /\ Leave(p, ConnectionError, TRUE)
    /\ UNCHANGED <<nextOrg, nextOpp, gate>>

Next ==
    \E p \in Procs :
        \/ CallCreateOrganization(p)
        \/ CoInsertOne(p)
        \/ CoUpdateOne(p)
        \/ CoCommit(p)
        \/ CallCreateOpportunity(p)
        \/ OpInsertOne(p)
        \/ OpUpdateOne(p)
        \/ OpCommit(p)
        \/ CallAddMember(p)
        \/ AmFindOne(p)
        \/ AmUpdateOrg(p)
        \/ AmUpdateUser(p)
        \/ AmCommit(p)
        \/ CallDeleteOrganization(p)
        \/ DelFindOne(p)
        \/ DelDeleteOne(p)
        \/ DelUpdateMany(p)
        \/ DelCommit(p)
        \/ CallIsAuthorizedUser(p)
        \/ AuFindOne(p)
        \/ ConnectionFailure(p)

Spec == Init /\ [][Next]_vars

\* ================================================== middlewares (the gate)
\* Strings are sequences of tokens. No token is a prefix or a suffix of
\* another, so equality, startswith, endswith and split on tokens agree with
\* the same operations on characters.
StartsWith(s, pre) == Len(s) >= Len(pre) /\ SubSeq(s, 1, Len(pre)) = pre

EndsWith(s, suf) ==
    Len(s) >= Len(suf) /\ SubSeq(s, Len(s) - Len(suf) + 1, Len(s)) = suf

RECURSIVE SplitFrom(_, _, _, _)
SplitFrom(s, sep, cur, acc) ==
    IF s = << >> THEN Append(acc, cur)
    ELSE IF Head(s) = sep THEN SplitFrom(Tail(s), sep, << >>, Append(acc, cur))
    ELSE SplitFrom(Tail(s), sep, Append(cur, Head(s)), acc)

\* str.split(sep): the list of parts, empty parts included.
Split(s, sep) == SplitFrom(s, sep, << >>, << >>)

\* ---- request paths and methods
Methods == {"GET", "POST"}

P1(a)          == <<"/", a>>
P2(a, b)       == <<"/", a, "/", b>>
P3(a, b, c)    == <<"/", a, "/", b, "/", c>>
P4(a, b, c, d) == <<"/", a, "/", b, "/", c, "/", d>>

UNAUTHORIZED_ENDPOINTS ==
    {[path |-> P1("docs"), method |-> "GET"],
     [path |-> P1("openapi.json"), method |-> "GET"],
     [path |-> P2("analytics", "health"), method |-> "GET"],
     [path |-> P2("auth", "register"), method |-> "POST"],
     [path |-> P2("auth", "verify"), method |-> "POST"],
     [path |-> P2("auth", "login"), method |-> "POST"],
     [path |-> P1("users"), method |-> "POST"]}

\* The request paths tried: the listed ones, the routes with a resource
\* check, and paths around them.
Paths ==
    {e.path : e \in UNAUTHORIZED_ENDPOINTS}
    \cup {P1("organizations"), P1("ws"), P2("organizations", "1"),
          P3("organizations", "1", "opportunities"),
          P2("organizations", "opportunities"),
          P4("organizations", "1", "x", "opportunities"),
          <<"/", "organizations", "x", "/", "1", "/", "opportunities">>,
          P3("x", "1", "opportunities")}

is_unauthorized_endpoint(request_path, request_method) ==
    [path |-> request_path, method |-> request_method] \in UNAUTHORIZED_ENDPOINTS

\* ---- authorization headers and bearer tokens
Lit(c) == [c |-> c, u |-> 0]

\* A token whose payload carries the well-formed user id u.
Jwt(u) == [c |-> "jwt", u |-> u]

\* Tokens that do not decode, decode to a payload without "user_id", to a
\* null user_id, or to a user_id that is not a well-formed object id.
BadTokens == {Lit("garbage"), Lit("nokey"), Lit("nulluser"), Lit("baduser")}

Tokens == BadTokens \cup {Jwt(u) : u \in UserIds}

NoHeader == [present |-> FALSE, text |-> << >>]
Header(t) == [present |-> TRUE, text |-> t]

Headers ==
    {NoHeader, Header(<< >>), Header(<<Lit("Bearer")>>)}
    \cup {Header(<<Lit(s), Lit(" "), t>>) : s \in {"Bearer", "Basic"}, t \in Tokens}
    \cup {Header(<<t>>) : t \in Tokens}
    \cup {Header(<<Lit("Bearer"), Lit(" "), Lit(" "), t>>) : t \in Tokens}

\* JwtTokenHandler().decode raises on anything that is not one token it signed.
Decodes(part) == Len(part) = 1 /\ part[1] \in Tokens \ {Lit("garbage")}

\* The decoded payload.
Payload(tok) ==
    [haskey  |-> tok.c # "nokey",
     user_id |-> IF tok.c = "jwt" \/ tok.c = "baduser" THEN <<tok.u>> ELSE None,
     valid   |-> tok.c = "jwt"]

PleaseLogin == "Please login to access this resource."

\* Variant: the underlying exception is let through.
WrapFailure_Reraise(cause) == Raised(cause, "")

\* except Exception as e: raise Exception("Please login ...") from e
WrapFailure(cause) == Raised(PleaseLogin, cause)

authentication_handler(access_token) ==
    IF ~access_token.present THEN WrapFailure("AttributeError")
    ELSE LET parts == Split(access_token.text, Lit(" ")) IN
         IF Len(parts) < 2 THEN WrapFailure("IndexError")
         ELSE IF ~Decodes(parts[2]) THEN WrapFailure("DecodeError")
         ELSE LET data == Payload(parts[2][1]) IN
              IF ~data.haskey THEN WrapFailure("KeyError")
              ELSE IF data.user_id = None THEN WrapFailure("Exception")
              ELSE IF ~data.valid THEN WrapFailure("InvalidObjectId")
              ELSE Returned(data.user_id)

AuthenticationHandler ==
    /\ gate.pc = "idle"
    /\ \E h \in Headers :
         LET res == authentication_handler(h)
         IN  gate' = [IdleGate EXCEPT !.fn = "authentication_handler", !.header = h,
                        !.result = res,
                        !.raised = IF res.ok THEN gate.raised
                                   ELSE gate.raised \cup {res}]
    /\ UNCHANGED <<orgs, opps, users, proc, nextOrg, nextOpp>>

\* ---- check_authorization
\* Variant: a request without a user is let through.
RequiresLogin_Never(current_user) == FALSE

\* if current_user is None
RequiresLogin(current_user) == current_user = None

UsersCheckApplies(request_path, request_method) ==
    \/ request_method = "POST" /\ request_path = P1("organizations")
    \/ request_path = P1("ws") /\ request_method = "GET"

OrganizationsCheckApplies(request_path, request_method) ==
    /\ request_method = "POST"
    /\ StartsWith(request_path, P1("organizations"))
    /\ EndsWith(request_path, P1("opportunities"))

\* organization_id = request_path.split("/")[2]
OrganizationId(request_path) == Split(request_path, "/")[3]

NotActivated ==
    "User is not authorized to access this resource, please activate your account."

NotAuthorized == "User is not authorized to access this resource."

\* The function returns, with the collaborator calls made so far.
GateReturns(res, calls) ==
    gate' = [gate EXCEPT !.pc = "idle", !.result = res, !.calls = calls]

\* Control passes the first resource check and reaches the second if.
SecondCheck(calls) ==
    IF OrganizationsCheckApplies(gate.path, gate.method)
    THEN gate' = [gate EXCEPT !.pc = "ca_organizations", !.calls = calls]
    ELSE GateReturns(Returned(None), calls)

\* The call runs up to its first await, or to its return or raise.
CallCheckAuthorization ==
    /\ gate.pc = "idle"
    /\ \E u \in {None} \cup {<<v>> : v \in UserIds}, path \in Paths, m \in Methods :
         LET g == [IdleGate EXCEPT !.fn = "check_authorization", !.user = u,
                     !.path = path, !.method = m, !.raised = gate.raised]
         IN  IF is_unauthorized_endpoint(path, m)
             THEN gate' = g
             ELSE IF RequiresLogin(u)
             THEN gate' = [g EXCEPT !.result = Raised(PleaseLogin, "")]
             ELSE IF UsersCheckApplies(path, m)
             THEN gate' = [g EXCEPT !.pc = "ca_users"]
             ELSE IF OrganizationsCheckApplies(path, m)
             THEN gate' = [g EXCEPT !.pc = "ca_organizations"]
             ELSE gate' = g
    /\ UNCHANGED <<orgs, opps, users, proc, nextOrg, nextOpp>>

\* await Users().is_authorized_user(current_user): it returns or raises.
CaUsers ==
    /\ gate.pc = "ca_users"
    /\ LET calls == Append(gate.calls,
                      [to |-> "Users", user |-> gate.user, org |-> << >>])
       IN  \E ok \in BOOLEAN :
             IF ok THEN SecondCheck(calls)
             ELSE GateReturns(Raised(NotActivated, ""), calls)
    /\ UNCHANGED <<orgs, opps, users, proc, nextOrg, nextOpp>>

\* await Organizations().is_authorized_user(organization_id, current_user)
CaOrganizations ==
    /\ gate.pc = "ca_organizations"
    /\ LET calls == Append(gate.calls,
                      [to |-> "Organizations", user |-> gate.user,
                       org |-> OrganizationId(gate.path)])
       IN  \E ok \in BOOLEAN :
             IF ok THEN GateReturns(Returned(None), calls)
             ELSE GateReturns(Raised(NotAuthorized, ""), calls)
    /\ UNCHANGED <<orgs, opps, users, proc, nextOrg, nextOpp>>

NextGate ==
    \/ AuthenticationHandler
    \/ CallCheckAuthorization
    \/ CaUsers
    \/ CaOrganizations

SpecGate == Init /\ [][NextGate]_vars

\* =================================================================== claims
\* The request in slot p returns or raises in this step.
Returns(p) == proc[p].pc # "idle" /\ proc'[p].pc = "idle"

IsMember(o, u) == o \in DOMAIN orgs /\ Contains(orgs[o].members, u)

HoldsOrg(u, o) == u \in DOMAIN users /\ Contains(users[u], o)

Failed(r) == r.status >= 400

\* C1: a successful create_organization(owner, data) stores a new
\* Organization whose admins and members are exactly the owner and whose
\* created_by is the owner, and the owner's organizations now holds its id.
C1_CreateOrganization ==
    [][\A p \in Procs :
         (Returns(p) /\ proc[p].op = "create_organization"
                     /\ proc'[p].result.status = 201)
         => LET id == proc[p].newid
                u  == proc[p].user
            IN  /\ id \notin DOMAIN orgs
                /\ id \in DOMAIN orgs'
                /\ orgs'[id].admins = <<u>>
                /\ orgs'[id].members = <<u>>
                /\ orgs'[id].created_by = u
                /\ u \in DOMAIN users'
                /\ Contains(users'[u], id)]_vars

C1_Witness ==
    \E p \in Procs :
        /\ proc[p].pc = "idle"
        /\ proc[p].op = "create_organization"
        /\ proc[p].result = CreatedOrg
        /\ proc[p].newid \in DOMAIN orgs
        /\ orgs[proc[p].newid].members = <<proc[p].user>>
        /\ orgs[proc[p].newid].admins = <<proc[p].user>>
        /\ HoldsOrg(proc[p].user, proc[p].newid)

\* C2: every id in an Organization's opportunities exists in the Opportunity
\* collection, and every Opportunity's organization_id names an Organization
\* that still exists.
C2_ReferentialIntegrity ==
    /\ \A o \in DOMAIN orgs : \A i \in 1..Len(orgs[o].opportunities) :
           orgs[o].opportunities[i] \in DOMAIN opps
    /\ \A i \in DOMAIN opps : opps[i].organization_id \in DOMAIN orgs

\* C3: delete_organization succeeds only for the organization's creator; a
\* caller who is not the creator (a member included) is turned away at the
\* ownership test with the authorization failure, and the organization and
\* every user's organizations stay as they were.
C3_DeleteOnlyByCreator ==
    [][\A p \in Procs :
         (Returns(p) /\ proc[p].op = "delete_organization")
         => LET o == proc[p].org
                u == proc[p].user
            IN  /\ proc'[p].result = OrgDeleted
                     => (o \in DOMAIN orgs /\ orgs[o].created_by = u)
                /\ (o \in DOMAIN orgs /\ orgs[o].created_by # u)
                     => /\ proc[p].pc = "del_find_one"
                        /\ proc'[p].result \in {Unauthorized, ConnectionError}
                        /\ orgs' = orgs
                        /\ users' = users]_vars

C3_Witness ==
    \E p \in Procs :
        /\ proc[p].pc = "idle"
        /\ proc[p].op = "delete_organization"
        /\ proc[p].result = Unauthorized
        /\ IsMember(proc[p].org, proc[p].user)
        /\ HoldsOrg(proc[p].user, proc[p].org)
        /\ orgs[proc[p].org].created_by # proc[p].user

\* C4: after a successful delete_organization(org, creator) no User record
\* holds org's id in its organizations.
C4_DeleteCleansMembers ==
    [][\A p \in Procs :
         (Returns(p) /\ proc[p].op = "delete_organization"
                     /\ proc'[p].result = OrgDeleted)
         => /\ proc[p].org \notin DOMAIN orgs'
            /\ \A u \in DOMAIN users' : ~Contains(users'[u], proc[p].org)]_vars

C4_Witness ==
    \E p \in Procs, q \in Procs :
        /\ proc[p].pc = "idle"
        /\ proc[p].op = "delete_organization"
        /\ proc[p].result = OrgDeleted
        /\ proc[q].pc = "idle"
        /\ proc[q].op = "add_member"
        /\ proc[q].result = MemberAdded
        /\ proc[q].org = proc[p].org
        /\ proc[q].user # proc[p].user
        /\ proc[p].org \notin DOMAIN orgs
        /\ \A u \in DOMAIN users : ~Contains(users[u], proc[p].org)

\* C5: when the membership cleanup of delete_organization fails (no record
\* modified, or the update raises), the deletion is not committed: the
\* organization is still stored afterwards and the request reports a failure.
C5_CleanupFailureKeepsOrg ==
    [][\A p \in Procs :
         (Returns(p) /\ proc[p].op = "delete_organization"
                     /\ proc[p].pc = "del_update_many")
         => /\ Failed(proc'[p].result)
            /\ proc[p].org \in DOMAIN orgs'
            /\ orgs' = orgs
            /\ users' = users]_vars

C5_Witness ==
    \E p \in Procs :
        /\ proc[p].pc = "idle"
        /\ proc[p].op = "delete_organization"
        /\ proc[p].at = "del_update_many"
        /\ Failed(proc[p].result)
        /\ proc[p].org \in DOMAIN orgs
        /\ orgs[proc[p].org].created_by = proc[p].user

\* C6: under any interleaving of concurrent requests no user id occurs more
\* than once in an organization's members.
C6_NoDuplicateMember ==
    \A o \in DOMAIN orgs : \A u \in UserIds : Count(orgs[o].members, u) <= 1

\* Two add_member requests for the same organization and user overlapped:
\* one was committed, the other lost the write conflict on the organization.
C6_Witness ==
    \E p \in Procs, q \in Procs :
        /\ p # q
        /\ proc[p].pc = "idle" /\ proc[q].pc = "idle"
        /\ proc[p].op = "add_member" /\ proc[q].op = "add_member"
        /\ proc[p].org = proc[q].org /\ proc[p].user = proc[q].user
        /\ proc[p].result = MemberAdded
        /\ proc[q].result = ServerError /\ proc[q].at = "am_update_org"
        /\ Count(orgs[proc[p].org].members, proc[p].user) = 1

\* C7: add_member(org, u) on an existing non-private organization with u not
\* yet a member is admitted and, when it succeeds, appends u to org.members
\* and org to u's organizations; a later add_member(org, u) is rejected with
\* the conflict failure and changes neither.
C7_AddMemberTwice ==
    [][\A p \in Procs :
         (proc[p].op = "add_member" /\ proc'[p] # proc[p])
         => LET o == proc[p].org
                u == proc[p].user
            IN  /\ (proc[p].pc = "am_find_one" /\ o \in DOMAIN orgs
                      /\ ~orgs[o].private /\ ~IsMember(o, u))
                     => \/ proc'[p].pc = "am_update_org"
                        \/ proc'[p].result = ConnectionError
                /\ (Returns(p) /\ proc'[p].result = MemberAdded)
                     => /\ ~IsMember(o, u)
                        /\ orgs'[o].members = Append(orgs[o].members, u)
                        /\ users'[u] = Append(users[u], o)
                /\ (proc[p].pc = "am_find_one" /\ IsMember(o, u))
                     => /\ proc'[p].result \in {AlreadyMember, ConnectionError}
                        /\ orgs' = orgs
                        /\ users' = users]_vars

C7_Witness ==
    \E p \in Procs, q \in Procs :
        /\ proc[q].pc = "idle" /\ proc[q].op = "add_member"
        /\ proc[q].result = MemberAdded
        /\ proc[p].pc = "idle" /\ proc[p].op = "add_member"
        /\ proc[p].result = AlreadyMember
        /\ proc[p].org = proc[q].org /\ proc[p].user = proc[q].user
        /\ ~orgs[proc[p].org].private
        /\ Count(orgs[proc[p].org].members, proc[p].user) = 1
        /\ Count(users[proc[p].user], proc[p].org) = 1

\* C8: a user id is in an organization's members exactly when the
\* organization's id is in that user's organizations; an add_member that fails
\* at its second write leaves the first write undone.
C8_MembershipPaired ==
    \A o \in OrgIds : \A u \in UserIds : IsMember(o, u) <=> HoldsOrg(u, o)

C8_Witness ==
    \E p \in Procs :
        /\ proc[p].pc = "idle"
        /\ proc[p].op = "add_member"
        /\ proc[p].at = "am_update_user"
        /\ proc[p].result = UserNotUpdatedDot
        /\ proc[p].org \in DOMAIN orgs
        /\ ~IsMember(proc[p].org, proc[p].user)

\* C9: add_member tests organization-absent, then already-a-member, then
\* organization-private, and reports the first that applies: a member of a
\* private organization gets the conflict failure.
C9_RejectionOrder ==
    [][\A p \in Procs :
         (Returns(p) /\ proc[p].pc = "am_find_one"
                     /\ proc'[p].result # ConnectionError)
         => LET o == proc[p].org
                u == proc[p].user
            IN  /\ o \notin DOMAIN orgs => proc'[p].result = OrgNotFound
                /\ IsMember(o, u) => proc'[p].result = AlreadyMember
                /\ (o \in DOMAIN orgs /\ ~IsMember(o, u))
                     => (orgs[o].private /\ proc'[p].result = OrgIsPrivate)]_vars

C9_Witness ==
    \E p \in Procs :
        /\ proc[p].pc = "idle"
        /\ proc[p].op = "add_member"
        /\ proc[p].result = AlreadyMember
        /\ IsMember(proc[p].org, proc[p].user)
        /\ orgs[proc[p].org].private

\* C10: every add_member on a private organization is rejected and leaves
\* its members as they were; the members of a private organization never
\* change after its creation.
C10_PrivateRejectsAll ==
    [][/\ \A p \in Procs :
            (Returns(p) /\ proc[p].op = "add_member"
                        /\ proc[p].org \in DOMAIN orgs
                        /\ orgs[proc[p].org].private)
            => Failed(proc'[p].result)
       /\ \A o \in DOMAIN orgs :
            (orgs[o].private /\ o \in DOMAIN orgs')
            => (orgs'[o].members = orgs[o].members
                /\ orgs'[o].members = <<orgs[o].created_by>>)]_vars

C10_Witness ==
    \E p \in Procs :
        /\ proc[p].pc = "idle"
        /\ proc[p].op = "add_member"
        /\ proc[p].result = OrgIsPrivate
        /\ proc[p].user \in DOMAIN users
        /\ proc[p].org \in DOMAIN orgs
        /\ orgs[proc[p].org].private
        /\ orgs[proc[p].org].members = <<orgs[proc[p].org].created_by>>

\* C11: create_organization with the name of an existing organization fails
\* with the "already exists" failure and writes nothing: no Organization is
\* stored and no user's organizations changes.
C11_DuplicateName ==
    [][\A p \in Procs :
         (Returns(p) /\ proc[p].pc = "co_insert_one")
         => /\ NameTaken(proc[p].name)
                 => /\ proc'[p].result \in {OrgExists, ConnectionError}
                    /\ orgs' = orgs
                    /\ users' = users
            /\ proc'[p].result = OrgExists => NameTaken(proc[p].name)]_vars

C11_Witness ==
    \E p \in Procs :
        /\ proc[p].pc = "idle"
        /\ proc[p].op = "create_organization"
        /\ proc[p].at = "co_insert_one"
        /\ proc[p].result = OrgExists
        /\ Cardinality(DOMAIN orgs) = 1
        /\ HoldsOrg(proc[p].user, 1)

\* C12: when the push of the new id into the owner's organizations modifies
\* no User record, create_organization raises the bad-request failure and
\* the inserted Organization is rolled back.
C12_OwnerPushRollsBack ==
    [][\A p \in Procs :
         (Returns(p) /\ proc[p].pc = "co_update_one"
                     /\ proc[p].user \notin DOMAIN users)
         => /\ proc'[p].result \in {UserNotUpdated, ConnectionError}
            /\ proc[p].newid \notin DOMAIN orgs'
            /\ orgs' = orgs
            /\ users' = users]_vars

C12_Witness ==
    \E p \in Procs :
        /\ proc[p].pc = "idle"
        /\ proc[p].op = "create_organization"
        /\ proc[p].at = "co_update_one"
        /\ proc[p].result = UserNotUpdated
        /\ proc[p].user \notin DOMAIN users
        /\ proc[p].newid = 1
        /\ proc[p].newid \notin DOMAIN orgs

\* C13: create_opportunity schedules the recommendation task only after its
\* transaction has committed: every scheduled task names an opportunity that
\* is stored.
C13_TaskAfterCommit ==
    \A p \in Procs : \A i \in 1..Len(proc[p].tasks) :
        proc[p].tasks[i].opp \in DOMAIN opps

\* C14: every operation releases its session on every exit path: no request
\* that has returned or raised leaves its session open.
C14_SessionsReleased ==
    \A p \in Procs : proc[p].pc = "idle" => proc[p].session # "open"

\* C15: is_authorized_user(org_id, user_id) succeeds exactly when user_id is
\* in the admins of the stored organization org_id; otherwise, unless the
\* store connection fails, it raises the 401 authorization failure; in no
\* case does it change stored data.
C15_IsAuthorizedUser ==
    [][\A p \in Procs :
         (Returns(p) /\ proc[p].pc = "au_find_one")
         => /\ orgs' = orgs /\ users' = users /\ opps' = opps
            /\ proc'[p].result \in {ReturnsNone, Unauthorized, ConnectionError}
            /\ proc'[p].result = ReturnsNone
                 => /\ proc[p].org \in DOMAIN orgs
                    /\ Contains(orgs[proc[p].org].admins, proc[p].user)
            /\ proc'[p].result = Unauthorized
                 => ~(/\ proc[p].org \in DOMAIN orgs
                      /\ Contains(orgs[proc[p].org].admins, proc[p].user))]_vars

\* A member who is not an admin has been refused, and an admin accepted.
C15_Witness ==
    /\ \E p \in Procs :
         /\ proc[p].pc = "idle" /\ proc[p].at = "au_find_one"
         /\ proc[p].result = Unauthorized
         /\ IsMember(proc[p].org, proc[p].user)
         /\ ~Contains(orgs[proc[p].org].admins, proc[p].user)
    /\ \E q \in Procs :
         /\ proc[q].pc = "idle" /\ proc[q].at = "au_find_one"
         /\ proc[q].result = ReturnsNone

\* C16: what is_authorized_user gives for a stored organization whose
\* admins lack the user differs from what it gives for an organization id
\* that is not stored.
C16_Distinguishable ==
    [][\A p \in Procs :
         (/\ Returns(p) /\ proc[p].pc = "au_find_one"
          /\ proc[p].org \in DOMAIN orgs
          /\ ~Contains(orgs[proc[p].org].admins, proc[p].user)
          /\ proc'[p].result # ConnectionError)
         => proc'[p].result # IsAuthorizedOutcome(MaxOrgs + 1, proc[p].user)]_vars

\* C17: the created_by of a stored organization never changes, and it is
\* always an element of both admins and members.
C17_CreatedByImmutable ==
    [][\A o \in DOMAIN orgs' :
         /\ Contains(orgs'[o].admins, orgs'[o].created_by)
         /\ Contains(orgs'[o].members, orgs'[o].created_by)
         /\ o \in DOMAIN orgs => orgs'[o].created_by = orgs[o].created_by]_vars

\* An organization that a second user has joined after its creation.
C17_Witness ==
    \E o \in DOMAIN orgs :
        /\ Len(orgs[o].members) = 2
        /\ orgs[o].members[1] = orgs[o].created_by
        /\ orgs[o].members[2] # orgs[o].created_by
        /\ HoldsOrg(orgs[o].members[2], o)

\* The two route shapes with a resource-level check.
ActivationRoute(path, m) ==
    \/ m = "POST" /\ path = P1("organizations")
    \/ m = "GET" /\ path = P1("ws")

OpportunitiesRoute(path, m) ==
    /\ m = "POST"
    /\ Len(path) = 6
    /\ path[4] # "/"
    /\ path = P3("organizations", path[4], "opportunities")

\* check_authorization has returned or raised for a request with a user.
Checked == gate.fn = "check_authorization" /\ gate.pc = "idle"

\* C18: with a non-null user, check_authorization calls the User
\* collaborator for POST /organizations and GET /ws, calls the Organization
\* Store's is_authorized_user with the path's {id} for
\* POST /organizations/{id}/opportunities, and for every other path and
\* method accepts with no collaborator call.
C18_ExactlyTwoRouteShapes ==
    (Checked /\ gate.user # None)
    => IF ActivationRoute(gate.path, gate.method)
       THEN gate.calls = <<[to |-> "Users", user |-> gate.user, org |-> << >>]>>
       ELSE IF OpportunitiesRoute(gate.path, gate.method)
       THEN gate.calls = <<[to |-> "Organizations", user |-> gate.user,
                            org |-> <<gate.path[4]>>]>>
       ELSE gate.result.ok /\ gate.calls = << >>

C20_GateDecision ==
    LET exempt == [path |-> gate.path, method |-> gate.method]
                      \in UNAUTHORIZED_ENDPOINTS
    IN  /\ gate.pc # "idle" => gate.user # None /\ ~exempt
        /\ Len(gate.calls) <= 1
        /\ Checked =>
             /\ exempt => gate.result.ok /\ gate.calls = << >>
             /\ (~exempt /\ gate.user = None)
                  => gate.result = Raised(PleaseLogin, "") /\ gate.calls = << >>
             /\ (~exempt /\ gate.result.ok) => gate.user # None

\* POST /users was accepted without a user, and no collaborator was asked.
C20_Witness ==
    /\ Checked
    /\ gate.path = P1("users") /\ gate.method = "POST"
    /\ gate.user = None
    /\ gate.result.ok
    /\ gate.calls = << >>

\* The request in slot p is a delete_organization by the creator of a
\* stored organization.
CreatorDeletes(p) ==
    /\ proc[p].op = "delete_organization"
    /\ proc[p].org \in DOMAIN orgs
    /\ orgs[proc[p].org].created_by = proc[p].user

\* No other request ran while p's transaction was open.
RanAlone(p) ==
    /\ \A q \in Procs \ {p} : proc[q].pc = "idle"
    /\ proc[p].stale = {} /\ proc[p].invis = {}

\* C21: delete_organization(org, creator) by the creator of a stored
\* organization never fails in the zero-modified branch of the membership
\* cleanup: the cleanup finds the creator's record holding the org id. It
\* ends in success, or in the failure the store raises for a lost connection
\* or a write conflict with a concurrent request; run with no concurrent
\* request and no lost connection it succeeds.
C21_CreatorDeleteSucceeds ==
    [][\A p \in Procs :
         (Returns(p) /\ CreatorDeletes(p))
         => /\ proc'[p].result \in {OrgDeleted, ConnectionError, ServerError}
            /\ proc[p].pc = "del_update_many"
                 => /\ proc[p].user \in PullTargets(p)
                    /\ HoldsOrg(proc[p].user, proc[p].org)
            /\ (RanAlone(p) /\ proc'[p].result # ConnectionError)
                 => /\ proc'[p].result = OrgDeleted
                    /\ proc[p].org \notin DOMAIN orgs']_vars

\* The creator has deleted an organization that had an opportunity, in a
\* run of the request with no concurrent request.
C21_Witness ==
    \E p \in Procs :
        /\ proc[p].pc = "idle"
        /\ proc[p].op = "delete_organization"
        /\ proc[p].at = "del_commit"
        /\ proc[p].result = OrgDeleted
        /\ proc[p].org \notin DOMAIN orgs
        /\ \E i \in DOMAIN opps :
             /\ opps[i].organization_id = proc[p].org
             /\ opps[i].created_by = proc[p].user
        /\ \A q \in Procs \ {p} : proc[q].pc = "idle" /\ proc[q].op = "create_opportunity"

====
